---- MODULE Spec2Model ----
(***************************************************************************)
(* keepTrace (src/keepTrace/__init__.py): the reducer that init() registers *)
(* for traceback objects, as a state machine.                               *)
(*                                                                          *)
(* One behaviour is one call of prepare_traceback(trace): a fresh _Cleaner, *)
(* the recursive clean() of the trace chain with its memo (self.seen), the  *)
(* optional source snapshot, and the reduction handed back to pickle.       *)
(* The recursion of clean() is an explicit stack of activations; one        *)
(* activation is one call of clean() that reached clean_traceback_types or  *)
(* a looping branch of clean_fallback.  Calls of clean() that answer at     *)
(* once (memo hit, exhausted depth, stub, pass-through, ...) are taken in   *)
(* the step of the caller.                                                  *)
(*                                                                          *)
(* Values are integers: an object identity (a member of Objs, a live        *)
(* object; NoneObj is None), or HeapBase + k, the k-th object the cleaner   *)
(* has built (heap[k]).                                                     *)
(***************************************************************************)
EXTENDS Integers, Sequences, FiniteSets, TLC

(* ------------------------------ bounds --------------------------------- *)
\* longest trace chain (tb_next links) given to the reducer
MaxLinks == 3
\* largest depth argument of init(); -1 (unlimited) is always included
MaxDepth == 2
\* largest limit argument of init(); None and 0 are always included
MaxLimit == 2
\* sys.getrecursionlimit(), counted in nested calls of clean()
RecursionLimit == 9

(* ------------------------- encoding of values -------------------------- *)
NoneObj == 0
Frame1 == 11
Frame2 == 12
Code1 == 21
Code2 == 22
Consts1 == 31
Consts2 == 32
StdObj == 41
ListObj == 42
DictObj == 43
FnObj == 44
ModObj == 45
OpqObj == 46
\* two temporaries, the values that two properties of OpqObj build on access
TmpA == 47
TmpB == 48
\* limit=None
NoLimit == -1
\* the throw-away dict "last_trace = {}" / "last_frame = {}"
Dummy == -1
\* a key that is not in a dict
Unset == -2
\* frame.f_globals / frame.f_locals as copied by dct.update(getattr ...)
LiveVars == -3
HeapBase == 100

Links == 1..MaxLinks
Frames == {Frame1, Frame2}
Codes == {Code1, Code2}
Values == {StdObj, ListObj, DictObj, FnObj, ModObj, OpqObj}
Temps == {TmpA, TmpB}
Objs ==
    {NoneObj} \cup Links \cup Frames \cup Codes \cup {Consts1, Consts2} \cup Values
    \cup Temps

\* type(obj), as far as clean() and clean_fallback() tell types apart
Kind(o) ==
    CASE o \in Links -> "tb"
      [] o \in Frames -> "frame"
      [] o \in Codes -> "code"
      [] o \in {Consts1, Consts2, ListObj} -> "seq"
      [] o = DictObj -> "dict"
      [] o = FnObj -> "func"
      [] o = ModObj -> "module"
      [] o \in {OpqObj} \cup Temps -> "object"
      [] OTHER -> "std"

TRACEBACK_TYPES == {"tb", "frame", "code"}

AttrNames == {"tb_frame", "tb_next", "f_back", "f_code", "f_globals",
              "f_locals", "f_trace", "co_consts", "a", "b"}

VARIABLES
    cfg,          \* the arguments of init(): depth, limit, pickler
    g,            \* the live object graph hanging off the trace (never changes)
    within,       \* the objects of g that a pass started with cfg.depth can
                  \* reach with depth left (never changes)
    seen,         \* _Cleaner.seen: object identity -> value, Unset when absent
    heap,         \* the objects the cleaner has built, by allocation order
    stack,        \* the activations of clean(), innermost last
    pc,           \* where prepare_traceback is
    clean_trace,  \* prepare_traceback's clean_trace
    include_source, \* init()'s include_source, "unread" until line 71 reads it
    files,        \* _snapshot_source_files' files: Codes -> "absent"|"text"|"placeholder"
    spos,         \* _snapshot_source_files' trace and frame
    outcome,      \* "running" | "returned" | "clean_raised" | "reduce_raised"
                  \* | "snapshot_raised": how the reducer ended
    exhausted,    \* history: the objects for which clean() took line 168
    dispatched,   \* history: how often clean() went past the memo check, per object
    hits,         \* history: the answers clean() gave from the memo: the object
                  \* asked for and the value returned
    caught        \* history: the exceptions the handlers of clean() caught: the
                  \* object, where it was raised, and what clean() then returned
                  \* at once (Unset when it went on into clean_fallback's loops)

vars == <<cfg, g, within, seen, heap, stack, pc, clean_trace, include_source, files,
          spos, outcome, exhausted, dispatched, caught, hits>>

(* --------------------------- the live graph ---------------------------- *)
\* the last link's tb_next is g.tbLoop: None, or (in the looped chains
\* only) a link of the chain
tb_next(t) ==
    IF t < g.nlinks THEN t + 1 ELSE IF t = g.nlinks THEN g.tbLoop ELSE NoneObj
tb_frame(t) == g.tbFrame[t]
f_back(f) == g.fBack[f]
f_code(f) == IF f = Frame1 THEN Code1 ELSE Code2
f_trace(f) == NoneObj
\* frame.f_locals.items(): Frame1 has one local variable, Frame2 none
f_locals(f) == IF f = Frame1 THEN <<g.local>> ELSE <<>>
\* frame.f_globals.items(): __name__ and one module-level function; the
\* globals of Frame2 may start with a key that is no str (globals()[1] = 2)
f_globals(f) ==
    (IF f = Frame2 /\ g.gflag = "intkey"
     THEN <<[str |-> FALSE, dunder |-> FALSE, v |-> StdObj]>> ELSE <<>>)
    \o <<[str |-> TRUE, dunder |-> TRUE, v |-> StdObj],
         [str |-> TRUE, dunder |-> FALSE, v |-> FnObj]>>
co_consts(c) == IF c = Code1 THEN Consts1 ELSE Consts2
\* the elements of a tuple or list; Code2 is a function nested in Code1
Elems(o) ==
    CASE o = Consts1 -> <<Code2>>
      [] o = Consts2 -> <<StdObj>>
      [] o = ListObj -> <<g.elem>>
      [] OTHER -> <<>>
\* dict.items(): one key, one value
Items(o) == <<[k |-> StdObj, v |-> g.val]>>
\* [at for at in dir(obj) if not at.startswith("__")] with the values that
\* getattr gives: OpqObj has one attribute, or two properties that build a
\* new object each; a temporary has one plain attribute
Attrs(o) ==
    IF o \in Temps THEN <<StdObj>>
    ELSE IF g.attr = TmpA THEN <<TmpA, TmpB>> ELSE <<g.attr>>
\* the name of the i-th attribute
AttrName(i) == IF i = 1 THEN "a" ELSE "b"
\* id(obj).  Nothing holds the first temporary once clean has returned for
\* it (its mock, its text and its pickle do not refer to it), so it is
\* released before the second is built; g.reuse is the allocator's choice to
\* build the second at the address of the first
id(o) == IF o = TmpB /\ g.reuse THEN TmpA ELSE o
\* repr(obj) raises: the object's own __repr__, or that of a list element
ReprFails(o) ==
    /\ g.oflag = "reprFails"
    /\ o = OpqObj \/ (o = ListObj /\ g.elem = OpqObj)
\* dir(obj) or getattr(obj, at) raises
IntrospectionFails(o) == o = OpqObj /\ g.oflag = "attrFails"

\* os.path.abspath(code.co_filename)
co_filename(c) == IF c = Code1 THEN "a.py" ELSE "b.py"
FileNames == {"a.py", "b.py"}

(* ------------------------ what the cleaner builds ---------------------- *)
NoAttrs == [n \in AttrNames |-> Unset]
Cell(kind, o, items, attrs) == [kind |-> kind, of |-> o, items |-> items, attrs |-> attrs]
\* a str: repr(obj) ("repr") or "Failed to serialize object: ..." ("failed")
TextCell(o, how) == Cell("Text", o, <<>>, NoAttrs) @@ [how |-> how]
\* _call(_mock, dct), with dct's entries as attrs
MockCell(o, attrs) == Cell("Mock", o, <<>>, attrs) @@ [how |-> ""]
\* the dict, list, tuple or set built by clean_fallback
ContainerCell(o, items) == Cell("Container", o, items, NoAttrs) @@ [how |-> ""]
\* the plain dict built for dct["f_globals"] / dct["f_locals"]
VarsCell(o, items) == Cell("Vars", o, items, NoAttrs) @@ [how |-> ""]
\* _import(obj.__name__)
ImportCell(o) == Cell("Import", o, <<>>, NoAttrs) @@ [how |-> ""]
\* _call(_safe_restore, pickler(obj), repr(obj))
RestoredCell(o) == Cell("Restored", o, <<>>, NoAttrs) @@ [how |-> ""]
\* the module-level _stub
StubCell == Cell("Stub", NoneObj, <<>>, NoAttrs) @@ [how |-> ""]
StubRef == HeapBase + 1

IsBuilt(r) == r > HeapBase
KindOf(hp, r) == IF IsBuilt(r) THEN hp[r - HeapBase].kind ELSE "Live"

\* the memory the cleaner reads and writes, threaded through one step
Mem ==
    [seen |-> seen, heap |-> heap, exhausted |-> exhausted,
     dispatched |-> dispatched, caught |-> caught, hits |-> hits]
NewRef(M) == HeapBase + Len(M.heap) + 1
Alloc(M, cell) == [M EXCEPT !.heap = Append(@, cell)]
Memo(M, o, r) == [M EXCEPT !.seen[id(o)] = r]
\* a cleaner that builds the mock but keeps it out of the memo until the
\* node is finished
PreloadMissing(M, o, m) == M
\* "Preload to stop recursive cycles" (lines 198, 215, 228, 255): the memo
\* gets the mock m of node o while m's dict has no cleaned entry yet
Preload(M, o, m) == Memo(M, o, m)
\* dct[name] = v; a write to the throw-away dict is lost
SetAttr(M, r, name, v) ==
    IF r = Dummy THEN M ELSE [M EXCEPT !.heap[r - HeapBase].attrs[name] = v]

(* ------------------------------ activations ---------------------------- *)
Act(fn, o, depth, label, cur, dct) ==
    [fn |-> fn, obj |-> o, depth |-> depth, pc |-> label, cur |-> cur,
     last |-> Dummy, dct |-> dct, idx |-> 1, acc |-> <<>>, res |-> Unset]
NoAct == Act("", NoneObj, 0, "", NoneObj, Dummy)

\* what a call does at once: return a value, start an activation, or raise
\* (site: "repr" for line 168, "delegate" for clean_traceback_types and
\* clean_fallback, "recursion" for a call too many)
Ret(M, r) == [k |-> "ret", M |-> M, ref |-> r, act |-> NoAct, site |-> ""]
Push(M, a) == [k |-> "push", M |-> M, ref |-> Unset, act |-> a, site |-> ""]
Raise(M, site) == [k |-> "raise", M |-> M, ref |-> Unset, act |-> NoAct, site |-> site]
\* one more entry of the history of caught exceptions, with the memo entry of
\* the object at that moment
Log(M, o, site, r) ==
    [M EXCEPT !.caught = @ \cup {[obj |-> o, site |-> site, ref |-> r,
                                  memo |-> M.seen[id(o)]]}]

(* ------------------------------ _Cleaner ------------------------------- *)
\* int(math.sqrt(n))
ISqrt(n) == CHOOSE k \in 0..n : k * k <= n /\ (k + 1) * (k + 1) > n

\* _Cleaner.__init__: self.limit = limit or int(math.sqrt(sys.getrecursionlimit()))
SelfLimit(limit) ==
    IF limit = NoLimit \/ limit = 0 THEN ISqrt(RecursionLimit) ELSE limit

\* the depth test of a cleaner that lets one more level through
ExhaustedOneLater(depth) == depth < -1

\* "if depth == -1", on the decremented depth
Exhausted(depth) == depth = -1

\* a clean() without its "except Exception": the failure goes to the caller
CleanHandlerMissing(M, o, site) == Raise(M, site)

\* lines 179-181, "except Exception as err": the memo gets the failure text,
\* which is returned
CleanHandler(M, o, site) ==
    LET r == NewRef(M)
    IN Ret(Log(Memo(Alloc(M, TextCell(o, "failed")), o, r), o, site, r), r)

\* clean_traceback_types up to its first loop test (trace, frame) or its
\* first call of clean (code descriptor: placeholder and raw attributes first)
clean_traceback_types(M, o, depth) ==
    CASE Kind(o) = "tb" ->
           Push(M, [Act("tb", o, depth, "loop", o, Dummy) EXCEPT !.idx = 0])
      [] Kind(o) = "frame" ->
           Push(M, Act("frame", o, depth, "loop", o, Dummy))
      [] OTHER ->
           LET m == NewRef(M)
               M1 == Alloc(M, MockCell(o, [NoAttrs EXCEPT !.co_consts = co_consts(o)]))
           IN Push(Preload(M1, o, m), Act("code", o, depth, "co_consts", o, m))

\* the module branch of clean_fallback
clean_module(M, o) ==
    CASE g.mflag = "nonefile" -> Raise(M, "delegate")
      [] g.mflag = "thirdparty" ->
           LET r == NewRef(M) IN Ret(Memo(Alloc(M, TextCell(o, "repr")), o, r), r)
      [] OTHER ->
           LET r == NewRef(M) IN Ret(Memo(Alloc(M, ImportCell(o)), o, r), r)

\* the last branch of clean_fallback, up to the first getattr
clean_object(M, o, depth) ==
    IF ReprFails(o) THEN Raise(M, "delegate")
    ELSE LET m == NewRef(M)
             M1 == Preload(Alloc(M, MockCell(o, NoAttrs)), o, m)
         IN IF IntrospectionFails(o)
            THEN LET r == NewRef(M1)
                 IN Ret(Memo(Alloc(M1, TextCell(o, "repr")), o, r), r)
            ELSE Push(M1, Act("mock", o, depth, "attr", o, m))

\* a clean_fallback whose known-safe branch answers with repr(obj)
clean_fallback_repr_std(M, o, depth) ==
    CASE Kind(o) = "dict" -> Push(M, Act("dict", o, depth, "key", o, Dummy))
      [] Kind(o) = "seq" -> Push(M, Act("seq", o, depth, "item", o, Dummy))
      [] Kind(o) = "func" -> Ret(Memo(M, o, StubRef), StubRef)
      [] Kind(o) = "std" ->
           LET r == NewRef(M) IN Ret(Memo(Alloc(M, TextCell(o, "repr")), o, r), r)
      [] Kind(o) = "module" -> clean_module(M, o)
      [] OTHER -> clean_object(M, o, depth)

\* clean_fallback up to its first call of clean
clean_fallback(M, o, depth) ==
    CASE Kind(o) = "dict" -> Push(M, Act("dict", o, depth, "key", o, Dummy))
      [] Kind(o) = "seq" -> Push(M, Act("seq", o, depth, "item", o, Dummy))
      [] Kind(o) = "func" -> Ret(Memo(M, o, StubRef), StubRef)
      [] Kind(o) = "std" -> Ret(Memo(M, o, o), o)
      [] Kind(o) = "module" -> clean_module(M, o)
      [] OTHER -> clean_object(M, o, depth)

\* lines 171-175: the pickler is tried first; its failure, or that of
\* repr(obj), is caught on line 174 and answered by clean_fallback
clean_pickled(M, o, depth) ==
    IF cfg.pickler = "ok" /\ ~ReprFails(o)
    THEN LET r == NewRef(M)
         IN Ret(Memo(Alloc(M, RestoredCell(o)), o, r), r)
    ELSE LET out == clean_fallback(M, o, depth)
         IN [out EXCEPT !.M = Log(out.M, o, "pickler", out.ref)]

\* the try block of clean, past the memo check.  A call that would nest
\* deeper than the recursion limit raises RecursionError
clean_dispatch(M, o, depth, nested) ==
    IF Exhausted(depth)
    THEN IF ReprFails(o) THEN Raise([M EXCEPT !.exhausted = @ \cup {o}], "repr")
         ELSE LET r == NewRef(M)
                  M1 == Memo(Alloc(M, TextCell(o, "repr")), o, r)
              IN Ret([M1 EXCEPT !.exhausted = @ \cup {o}], r)
    ELSE IF nested >= RecursionLimit THEN Raise(M, "recursion")
    ELSE IF Kind(o) \in TRACEBACK_TYPES THEN clean_traceback_types(M, o, depth)
    ELSE IF cfg.pickler # "none" THEN clean_pickled(M, o, depth)
    ELSE clean_fallback(M, o, depth)

\* a clean() that never looks into the memo
CleanMemoNever(M, o) == FALSE

\* line 162: "if obj_id in self.seen"
CleanMemoHit(M, o) == M.seen[id(o)] # Unset

\* clean(obj, depth) called with `nested` activations of clean below it:
\* the value it returns at once, or the activation it starts
clean(M, o, depth, nested) ==
    IF CleanMemoHit(M, o)
    THEN Ret([M EXCEPT !.hits = @ \cup {[obj |-> o, ref |-> M.seen[id(o)]]}],
             M.seen[id(o)])
    ELSE LET out == clean_dispatch([M EXCEPT !.dispatched[o] = @ + 1], o, depth - 1, nested)
         IN IF out.k = "raise" THEN CleanHandler(out.M, o, out.site) ELSE out

(* ------------------------- stepping activations ------------------------ *)
top == stack[Len(stack)]
SetTop(a) == [stack EXCEPT ![Len(stack)] = a]

\* an exception reaches activation a: the try of clean_fallback's last branch
\* (lines 253-258) answers with repr(obj); everywhere else it reaches the
\* handler of the clean() that a belongs to
Unwind(M, a) ==
    IF a.fn = "mock" /\ ~ReprFails(a.obj)
    THEN LET r == NewRef(M)
         IN [M |-> Memo(Alloc(M, TextCell(a.obj, "repr")), a.obj, r),
             act |-> [a EXCEPT !.pc = "ret", !.res = r]]
    ELSE LET out == CleanHandler(M, a.obj, "delegate")
         IN IF out.k = "ret"
            THEN [M |-> out.M, act |-> [a EXCEPT !.pc = "ret", !.res = out.ref]]
            ELSE [M |-> out.M, act |-> [a EXCEPT !.pc = "exc"]]

\* lines 200-202: dct["tb_frame"] = r, then on to the next link
ResumeTbFrame(M, a, r) ==
    [M |-> SetAttr(M, a.dct, "tb_frame", r),
     act |-> [a EXCEPT !.cur = tb_next(a.cur), !.last = a.dct, !.idx = @ + 1,
                       !.pc = "loop"]]

\* lines 221-223: dct["f_code"] = r, then on to the calling frame
ResumeFCode(M, a, r) ==
    [M |-> SetAttr(M, a.dct, "f_code", r),
     act |-> [a EXCEPT !.cur = f_back(a.cur), !.last = a.dct, !.pc = "loop"]]

\* activation a, waiting at a.pc for a call of clean, gets the value r
Resume(M, a, r) ==
    CASE a.pc = "tb_frame" -> ResumeTbFrame(M, a, r)
      [] a.pc = "f_trace" ->     \* line 220
           [M |-> SetAttr(M, a.dct, "f_trace", r), act |-> [a EXCEPT !.pc = "f_code"]]
      [] a.pc = "f_code" -> ResumeFCode(M, a, r)
      [] a.pc = "co_consts" ->   \* lines 230-232
           [M |-> SetAttr(M, a.dct, "co_consts", r),
            act |-> [a EXCEPT !.pc = "ret", !.res = a.dct]]
      [] a.pc = "key" ->         \* line 239, the key of an item
           [M |-> M, act |-> [a EXCEPT !.acc = Append(@, r), !.pc = "val"]]
      [] a.pc = "val" ->         \* line 239, the value of an item
           [M |-> M, act |-> [a EXCEPT !.acc = Append(@, r), !.idx = @ + 1, !.pc = "key"]]
      [] a.pc = "attr" ->        \* line 256, one pair of dct.update
           [M |-> SetAttr(M, a.dct, AttrName(a.idx), r), act |-> [a EXCEPT !.idx = @ + 1]]
      [] OTHER ->                \* lines 218, 219, 241: one more element
           [M |-> M, act |-> [a EXCEPT !.acc = Append(@, r), !.idx = @ + 1]]

\* the memory and stack after activation a (the top) called clean and got out
AfterCall(out, a) ==
    CASE out.k = "push" -> [M |-> out.M, stack |-> Append(SetTop(a), out.act)]
      [] out.k = "ret" ->
           LET rs == Resume(out.M, a, out.ref)
           IN [M |-> rs.M, stack |-> SetTop(rs.act)]
      [] OTHER ->
           LET rs == Unwind(out.M, a)
           IN [M |-> rs.M, stack |-> SetTop(rs.act)]

\* top calls self.clean(o, depth)
Call(M, a, o, depth) == AfterCall(clean(M, o, depth, Len(stack)), a)

Commit(n) ==
    /\ seen' = n.M.seen
    /\ heap' = n.M.heap
    /\ exhausted' = n.M.exhausted
    /\ dispatched' = n.M.dispatched
    /\ caught' = n.M.caught
    /\ hits' = n.M.hits
    /\ stack' = n.stack
    /\ UNCHANGED <<cfg, g, within, pc, clean_trace, include_source, files, spos, outcome>>

Running(fn, label) == stack # <<>> /\ top.fn = fn /\ top.pc = label

\* result = self.seen[obj_id] (lines 204, 224); a missing key is a KeyError
SeenResult(M, a) ==
    IF M.seen[id(a.obj)] # Unset
    THEN [M |-> M, stack |-> SetTop([a EXCEPT !.pc = "ret", !.res = M.seen[id(a.obj)]])]
    ELSE LET rs == Unwind(M, a) IN [M |-> rs.M, stack |-> SetTop(rs.act)]

\* a trace walk that never finds a link in the memo
TraceMemoMiss(M, t) == FALSE
\* line 194: "if trace_id in self.seen"
TraceMemoHit(M, t) == M.seen[id(t)] # Unset
\* line 211: "if frame_id in self.seen"
FrameMemoHit(M, f) == M.seen[id(f)] # Unset

\* clean_traceback_types, the trace walk: one turn of the for loop up to the
\* call of clean on line 200, or the end of the loop with lines 203-204
TraceLoop ==
    /\ Running("tb", "loop")
    /\ LET a == top
       IN IF a.idx >= SelfLimit(cfg.limit) \/ a.cur = NoneObj
          THEN Commit(SeenResult(SetAttr(Mem, a.last, "tb_next", NoneObj), a))
          ELSE IF TraceMemoHit(Mem, a.cur)
          THEN LET M1 == SetAttr(Mem, a.last, "tb_next", seen[id(a.cur)])
               IN Commit(SeenResult(SetAttr(M1, a.last, "tb_next", NoneObj), a))
          ELSE LET m == NewRef(Mem)
                   raw == [NoAttrs EXCEPT !.tb_frame = tb_frame(a.cur),
                                          !.tb_next = tb_next(a.cur)]
                   M1 == Preload(Alloc(Mem, MockCell(a.cur, raw)), a.cur, m)
                   M2 == SetAttr(M1, a.last, "tb_next", m)
               IN Commit(Call(M2, [a EXCEPT !.dct = m, !.pc = "tb_frame"],
                              tb_frame(a.cur), a.depth + 1))

\* clean_traceback_types, the frame walk: the loop test, the memo test, the
\* placeholder and the raw attributes (lines 209-217), or line 224
FrameLoop ==
    /\ Running("frame", "loop")
    /\ LET a == top
       IN IF a.cur = NoneObj
          THEN Commit(SeenResult(Mem, a))
          ELSE IF FrameMemoHit(Mem, a.cur)
          THEN Commit(SeenResult(SetAttr(Mem, a.last, "f_back", seen[id(a.cur)]), a))
          ELSE LET m == NewRef(Mem)
                   raw == [NoAttrs EXCEPT !.f_back = f_back(a.cur),
                                          !.f_code = f_code(a.cur),
                                          !.f_trace = f_trace(a.cur),
                                          !.f_globals = LiveVars,
                                          !.f_locals = LiveVars]
                   M1 == Preload(Alloc(Mem, MockCell(a.cur, raw)), a.cur, m)
                   M2 == SetAttr(M1, a.last, "f_back", m)
               IN Commit([M |-> M2,
                          stack |-> SetTop([a EXCEPT !.dct = m, !.pc = "f_globals",
                                                     !.idx = 1, !.acc = <<>>])])

\* line 218: one item of frame.f_globals, or the assignment of the finished
\* dict; k.startswith raises AttributeError for a key that is no str
FrameGlobals ==
    /\ Running("frame", "f_globals")
    /\ LET a == top
           gl == f_globals(a.cur)
       IN IF a.idx > Len(gl)
          THEN LET r == NewRef(Mem)
                   M1 == SetAttr(Alloc(Mem, VarsCell(a.cur, a.acc)), a.dct, "f_globals", r)
               IN Commit([M |-> M1,
                          stack |-> SetTop([a EXCEPT !.pc = "f_locals", !.idx = 1,
                                                     !.acc = <<>>])])
          ELSE IF ~gl[a.idx].str
          THEN LET rs == Unwind(Mem, a)
               IN Commit([M |-> rs.M, stack |-> SetTop(rs.act)])
          ELSE IF gl[a.idx].dunder
          THEN Commit([M |-> Mem, stack |-> SetTop([a EXCEPT !.idx = @ + 1])])
          ELSE Commit(Call(Mem, a, gl[a.idx].v, a.depth))

\* line 219: one item of frame.f_locals, or the assignment of the finished dict
FrameLocals ==
    /\ Running("frame", "f_locals")
    /\ LET a == top
           lo == f_locals(a.cur)
       IN IF a.idx > Len(lo)
          THEN LET r == NewRef(Mem)
                   M1 == SetAttr(Alloc(Mem, VarsCell(a.cur, a.acc)), a.dct, "f_locals", r)
               IN Commit([M |-> M1, stack |-> SetTop([a EXCEPT !.pc = "f_trace"])])
          ELSE Commit(Call(Mem, a, lo[a.idx], a.depth))

\* line 220
FrameTrace ==
    /\ Running("frame", "f_trace")
    /\ Commit(Call(Mem, top, f_trace(top.cur), top.depth))

\* lines 221-223
FrameCode ==
    /\ Running("frame", "f_code")
    /\ Commit(Call(Mem, top, f_code(top.cur), top.depth + 1))

\* lines 230-232, the code descriptor
CodeConsts ==
    /\ Running("code", "co_consts")
    /\ Commit(Call(Mem, top, co_consts(top.obj), top.depth + 2))

\* line 239: the key of the next item, or the memo entry for the finished dict
DictKey ==
    /\ Running("dict", "key")
    /\ LET a == top
       IN IF a.idx > Len(Items(a.obj))
          THEN LET r == NewRef(Mem)
                   M1 == Memo(Alloc(Mem, ContainerCell(a.obj, a.acc)), a.obj, r)
               IN Commit([M |-> M1, stack |-> SetTop([a EXCEPT !.pc = "ret", !.res = r])])
          ELSE Commit(Call(Mem, a, Items(a.obj)[a.idx].k, a.depth))

\* line 239: the value of the item
DictValue ==
    /\ Running("dict", "val")
    /\ Commit(Call(Mem, top, Items(top.obj)[top.idx].v, top.depth))

\* line 241: the next element, or the memo entry for the finished sequence
SeqItem ==
    /\ Running("seq", "item")
    /\ LET a == top
       IN IF a.idx > Len(Elems(a.obj))
          THEN LET r == NewRef(Mem)
                   M1 == Memo(Alloc(Mem, ContainerCell(a.obj, a.acc)), a.obj, r)
               IN Commit([M |-> M1, stack |-> SetTop([a EXCEPT !.pc = "ret", !.res = r])])
          ELSE Commit(Call(Mem, a, Elems(a.obj)[a.idx], a.depth))

\* line 256: the next attribute, or the end of dct.update
MockAttr ==
    /\ Running("mock", "attr")
    /\ LET a == top
       IN IF a.idx > Len(Attrs(a.obj))
          THEN Commit([M |-> Mem, stack |-> SetTop([a EXCEPT !.pc = "ret", !.res = a.dct])])
          ELSE Commit(Call(Mem, a, Attrs(a.obj)[a.idx], a.depth))

\* an activation of clean returns, or lets its exception go, to its caller
Return ==
    /\ Len(stack) > 1
    /\ top.pc \in {"ret", "exc"}
    /\ LET below == SubSeq(stack, 1, Len(stack) - 1)
           caller == below[Len(below)]
           rs == IF top.pc = "ret" THEN Resume(Mem, caller, top.res)
                 ELSE Unwind(Mem, caller)
       IN Commit([M |-> rs.M, stack |-> [below EXCEPT ![Len(below)] = rs.act]])

(* --------------------------- prepare_traceback ------------------------- *)
\* the trace handed to the reducer
RootTrace == 1

\* line 70: _Cleaner(pickler, limit).clean(trace, depth)
PrepareTraceback ==
    /\ pc = "init"
    /\ LET out == clean(Mem, RootTrace, cfg.depth, 0)
       IN /\ seen' = out.M.seen
          /\ heap' = out.M.heap
          /\ exhausted' = out.M.exhausted
          /\ dispatched' = out.M.dispatched
          /\ caught' = out.M.caught
          /\ hits' = out.M.hits
          /\ stack' = IF out.k = "push" THEN <<out.act>> ELSE <<>>
          /\ clean_trace' = out.ref
          /\ pc' = CASE out.k = "push" -> "clean"
                     [] out.k = "ret" -> "cleaned"
                     [] OTHER -> "done"
          /\ outcome' = IF out.k = "raise" THEN "clean_raised" ELSE outcome
    /\ UNCHANGED <<cfg, g, within, include_source, files, spos>>

\* the outermost clean returns to line 70
CleanReturns ==
    /\ pc = "clean"
    /\ Len(stack) = 1
    /\ top.pc \in {"ret", "exc"}
    /\ stack' = <<>>
    /\ clean_trace' = top.res
    /\ pc' = IF top.pc = "ret" THEN "cleaned" ELSE "done"
    /\ outcome' = IF top.pc = "ret" THEN outcome ELSE "clean_raised"
    /\ UNCHANGED <<cfg, g, within, seen, heap, include_source, files, spos, exhausted,
                   dispatched, caught, hits>>

\* clean_trace.func on line 74: a str has no attribute func
HasFunc(r) == KindOf(heap, r) # "Text"

\* lines 71-74 without the snapshot.  include_source is an argument of init();
\* nothing reads it before line 71, and the model draws it there
ReadIncludeSource ==
    /\ pc = "cleaned"
    /\ \E b \in BOOLEAN :
         /\ include_source' = IF b THEN "yes" ELSE "no"
         /\ IF b
            THEN /\ pc' = "snapshot"
                 /\ spos' = [trace |-> RootTrace, frame |-> tb_frame(RootTrace)]
                 /\ outcome' = outcome
            ELSE /\ pc' = "done"
                 /\ spos' = spos
                 /\ outcome' = IF HasFunc(clean_trace) THEN "returned" ELSE "reduce_raised"
    /\ UNCHANGED <<cfg, g, within, seen, heap, stack, clean_trace, files, exhausted,
                   dispatched, caught, hits>>

(* ------------------------ _snapshot_source_files ----------------------- *)
\* what open(filename) / f.read() can do
ReadOutcomes == {"text", "io_error", "other_error"}
\* "except IOError"
SnapshotCatches(kind) == kind = "io_error"

\* the frame after `frame`, in the order of the two while loops
NextPos(p) ==
    IF f_back(p.frame) # NoneObj THEN [p EXCEPT !.frame = f_back(p.frame)]
    ELSE IF tb_next(p.trace) # NoneObj
    THEN [trace |-> tb_next(p.trace), frame |-> tb_frame(tb_next(p.trace))]
    ELSE [trace |-> NoneObj, frame |-> NoneObj]

\* lines 126-133 for one frame
SnapshotFrame ==
    /\ pc = "snapshot"
    /\ spos.trace # NoneObj
    /\ LET name == co_filename(f_code(spos.frame))
       IN IF files[name] # "absent"
          THEN /\ files' = files
               /\ spos' = NextPos(spos)
               /\ UNCHANGED <<pc, outcome>>
          ELSE \E kind \in ReadOutcomes :
                 IF kind = "text"
                 THEN /\ files' = [files EXCEPT ![name] = "text"]
                      /\ spos' = NextPos(spos)
                      /\ UNCHANGED <<pc, outcome>>
                 ELSE IF SnapshotCatches(kind)
                 THEN /\ files' = [files EXCEPT ![name] = "placeholder"]
                      /\ spos' = NextPos(spos)
                      /\ UNCHANGED <<pc, outcome>>
                 ELSE /\ pc' = "done"
                      /\ outcome' = "snapshot_raised"
                      /\ UNCHANGED <<files, spos>>
    /\ UNCHANGED <<cfg, g, within, seen, heap, stack, clean_trace, include_source,
                   exhausted, dispatched, caught, hits>>

\* lines 135 and 73: return cache_files, (clean_trace, files)
ReturnWithSource ==
    /\ pc = "snapshot"
    /\ spos.trace = NoneObj
    /\ pc' = "done"
    /\ outcome' = "returned"
    /\ UNCHANGED <<cfg, g, within, seen, heap, stack, clean_trace, include_source, files,
                   spos, exhausted, dispatched, caught, hits>>

(* ------------------------- depth along the graph ----------------------- *)
SeqRange(q) == {q[i] : i \in 1..Len(q)}

\* the calls of clean made for object o dispatched at depth d (the
\* decremented depth), each as <<object, the depth it is dispatched at>>.
\* clean takes one on entry: the frame of a link and the code of a frame
\* (called with depth + 1, lines 200 and 221) stay at d, co_consts (called
\* with depth + 2, line 230) is at d + 1, everything else is at d - 1; the
\* next link and the calling frame are walked inside the same call
Fanout(o, d) ==
    CASE Kind(o) = "tb" ->
           {<<tb_frame(o), d>>} \cup
           (IF tb_next(o) # NoneObj THEN {<<tb_next(o), d>>} ELSE {})
      [] Kind(o) = "frame" ->
           {<<f_code(o), d>>, <<f_trace(o), d - 1>>} \cup
           (IF f_back(o) # NoneObj THEN {<<f_back(o), d>>} ELSE {}) \cup
           {<<x.v, d - 1>> : x \in {y \in SeqRange(f_globals(o)) : y.str /\ ~y.dunder}} \cup
           {<<v, d - 1>> : v \in SeqRange(f_locals(o))}
      [] Kind(o) = "code" -> {<<co_consts(o), d + 1>>}
      [] Kind(o) = "seq" -> {<<v, d - 1>> : v \in SeqRange(Elems(o))}
      [] Kind(o) = "dict" ->
           UNION {{<<x.k, d - 1>>, <<x.v, d - 1>>} : x \in SeqRange(Items(o))}
      [] Kind(o) = "object" -> {<<v, d - 1>> : v \in SeqRange(Attrs(o))}
      [] OTHER -> {}

\* R and the calls of clean made for the objects of R dispatched with depth
\* left
Dispatches(R) == R \cup UNION {Fanout(p[1], p[2]) : p \in {x \in R : x[2] >= 0}}

\* every <<object, depth>> at which a pass that starts from R dispatches
RECURSIVE Closure(_)
Closure(R) ==
    UNION {IF Dispatches(r) = r THEN r ELSE Closure(Dispatches(r)) : r \in {R}}

\* the objects that some path of references from the root reaches with depth
\* left, in a pass started with cfg.depth
WithinDepth ==
    {p[1] : p \in {x \in Closure({<<RootTrace, cfg.depth - 1>>}) : x[2] >= 0}}

(* ------------------------------ the inputs ----------------------------- *)
Depths == -1..MaxDepth
Limits == {NoLimit} \cup (0..MaxLimit)
Picklers == {"none", "ok", "fail"}

\* frames never form a cycle through f_back
FBacks ==
    {[f \in Frames |-> NoneObj],
     [f \in Frames |-> IF f = Frame1 THEN Frame2 ELSE NoneObj],
     [f \in Frames |-> IF f = Frame2 THEN Frame1 ELSE NoneObj]}

\* the links of a chain all have one frame (a loop body that raised again),
\* or take turns between the two frames
FramePatterns ==
    {[t \in Links |-> Frame1], [t \in Links |-> Frame2],
     [t \in Links |-> IF t % 2 = 1 THEN Frame1 ELSE Frame2],
     [t \in Links |-> IF t % 2 = 1 THEN Frame2 ELSE Frame1]}

\* what is not part of a graph has one fixed shape
Normal(gr) ==
    /\ \A t \in Links : t > gr.nlinks => gr.tbFrame[t] = Frame1
    /\ \E pat \in FramePatterns : \A t \in 1..gr.nlinks : gr.tbFrame[t] = pat[t]
    /\ gr.local # ListObj => gr.elem = StdObj
    /\ gr.local # DictObj => gr.val = StdObj
    /\ gr.local # ModObj => gr.mflag = "stdlib"
    /\ ~(gr.local = OpqObj \/ gr.elem = OpqObj) => gr.oflag = "ok" /\ gr.attr = StdObj
    /\ gr.reuse => gr.attr = TmpA
    /\ gr.oflag # "ok" => gr.attr = StdObj
    /\ gr.gflag = "intkey" => gr.local = StdObj

AllGraphs ==
    {gr \in [nlinks : 1..MaxLinks, tbLoop : {NoneObj},
             tbFrame : [Links -> Frames], fBack : FBacks,
             local : Values \cup Links \cup Frames,
             elem : {StdObj, ListObj, OpqObj}, val : {StdObj, DictObj},
             attr : {StdObj, OpqObj, TmpA}, reuse : BOOLEAN,
             oflag : {"ok", "reprFails", "attrFails"},
             mflag : {"nofile", "stdlib", "thirdparty", "nonefile"},
             gflag : {"ok", "intkey"}] : Normal(gr)}

\* every chain of up to MaxLinks links over the two frames, whose local
\* variable is a plain value, a link of the chain or a frame
ChainGraphs ==
    {gr \in AllGraphs :
        /\ gr.local \in {StdObj} \cup Frames \cup (1..gr.nlinks)}

\* a one-link chain whose local variable is any of the values
ValueGraphs ==
    {gr \in AllGraphs :
        /\ gr.local \in Values
        /\ gr.nlinks = 1 /\ gr.tbFrame[1] = Frame1
        /\ gr.fBack = [f \in Frames |-> NoneObj]}

Configs == [depth : Depths, limit : Limits, pickler : Picklers]

\* the calls of the reducer that are explored: every chain with the default
\* (mocking) cleaner, and every value with every pickler
Inputs ==
    {[cfg |-> c, g |-> gr] : c \in {x \in Configs : x.pickler = "none"},
                             gr \in ChainGraphs}
    \cup
    {[cfg |-> c, g |-> gr] : c \in {x \in Configs : x.limit = NoLimit},
                             gr \in ValueGraphs}

\* f_back with a cycle: the two frames calling each other, a frame that is
\* its own caller, a frame whose caller is its own caller
LoopFBacks ==
    {[f \in Frames |-> IF f = Frame1 THEN Frame2 ELSE Frame1],
     [f \in Frames |-> IF f = Frame1 THEN Frame1 ELSE NoneObj],
     [f \in Frames |-> Frame2]}

\* self-referential chains: the last link's tb_next is a link of the chain,
\* or f_back has a cycle (and, for the values a frame can hold, one-link
\* chains with and without the loop).  CPython builds neither (assigning such a tb_next
\* raises ValueError, f_back is read-only); they are what lines 194 and 211
\* guard against, and are explored in LoopSpec only
LoopGraphs ==
    {gr \in [nlinks : 1..MaxLinks, tbLoop : {NoneObj} \cup Links,
             tbFrame : {[t \in Links |-> Frame1],
                        [t \in Links |-> IF t % 2 = 1 THEN Frame1 ELSE Frame2]},
             fBack : FBacks \cup LoopFBacks,
             local : {StdObj, DictObj, OpqObj},
             elem : {StdObj}, val : {StdObj}, attr : {StdObj}, reuse : {FALSE},
             oflag : {"ok"}, mflag : {"stdlib"}, gflag : {"ok"}] :
        /\ gr.tbLoop \in {NoneObj} \cup (1..gr.nlinks)
        /\ gr.tbLoop # NoneObj \/ gr.fBack \in LoopFBacks \/ gr.local # StdObj
        /\ \A t \in Links : t > gr.nlinks => gr.tbFrame[t] = Frame1
        /\ gr.local # StdObj => gr.nlinks = 1 /\ gr.fBack \in FBacks}

LoopInputs ==
    {[cfg |-> c, g |-> gr] :
        c \in [depth : Depths, limit : {NoLimit, MaxLimit}, pickler : {"none"}],
        gr \in LoopGraphs}

\* the state after _Cleaner.__init__ (line 156) and before line 70
Constructed ==
    /\ within = WithinDepth
    /\ seen = [o \in Objs |-> Unset]
    /\ heap = <<StubCell>>
    /\ stack = <<>>
    /\ pc = "init"
    /\ clean_trace = Unset
    /\ include_source = "unread"
    /\ files = [n \in FileNames |-> "absent"]
    /\ spos = [trace |-> NoneObj, frame |-> NoneObj]
    /\ outcome = "running"
    /\ exhausted = {}
    /\ dispatched = [o \in Objs |-> 0]
    /\ caught = {}
    /\ hits = {}

Init == (\E in \in Inputs : cfg = in.cfg /\ g = in.g) /\ Constructed

\* the reducer called with a self-referential chain
LoopInit == (\E in \in LoopInputs : cfg = in.cfg /\ g = in.g) /\ Constructed

Next ==
    \/ PrepareTraceback
    \/ TraceLoop
    \/ FrameLoop
    \/ FrameGlobals
    \/ FrameLocals
    \/ FrameTrace
    \/ FrameCode
    \/ CodeConsts
    \/ DictKey
    \/ DictValue
    \/ SeqItem
    \/ MockAttr
    \/ Return
    \/ CleanReturns
    \/ ReadIncludeSource
    \/ SnapshotFrame
    \/ ReturnWithSource

Spec == Init /\ [][Next]_vars

\* the reducer is one sequential call: it takes its next step whenever it
\* has one
LoopSpec == LoopInit /\ [][Next]_vars /\ WF_vars(Next)

(* --------------------------- reading the output ------------------------ *)
CellOf(r) == heap[r - HeapBase]
IsKind(r, kind) == KindOf(heap, r) = kind
\* r is the text "Failed to serialize object: ..." made for object o
FailedText(r, o) ==
    /\ IsKind(r, "Text")
    /\ CellOf(r).how = "failed"
    /\ CellOf(r).of = o
\* the clean() of line 70 has returned
Cleaned == pc \in {"cleaned", "snapshot", "done"} /\ outcome # "clean_raised"
\* no call of clean() let an exception out
NoCleanRaised ==
    /\ outcome # "clean_raised"
    /\ \A i \in 1..Len(stack) : stack[i].pc # "exc"
Min(a, b) == IF a < b THEN a ELSE b

(* --------------------------------- C1 ---------------------------------- *)
\* C1, as the claim states it: clean never raises, and every failure it
\* catches (the external pickler's included) is answered with the failure
\* text, which is also the memo entry of the object.
C1_EveryFailureBecomesText ==
    /\ NoCleanRaised
    /\ \A e \in caught :
         e.ref # Unset => FailedText(e.ref, e.obj) /\ e.memo = e.ref

\* C1, amended: clean never raises.  A failure of the external pickler (or
\* of the repr taken with it) is caught on line 174 and answered with what
\* clean_fallback returns, which is no failure text; every other failure is
\* caught on line 179 and answered with the failure text of the object,
\* which is at that moment its memo entry.
C1_CleanAbsorbsFailures ==
    /\ NoCleanRaised
    /\ \A e \in caught :
         IF e.site = "pickler"
         THEN e.ref # Unset => ~IsKind(e.ref, "Text") \/ CellOf(e.ref).how = "repr"
         ELSE FailedText(e.ref, e.obj) /\ e.memo = e.ref

\* a failure was caught by the outer handler and one by the inner handler,
\* and the reducer went on to return
C1_Witness ==
    /\ \E e \in caught : e.site = "delegate" /\ seen[e.obj] = e.ref
    /\ \E e \in caught : e.site = "pickler"
    /\ outcome = "returned"

(* --------------------------------- C2 ---------------------------------- *)
\* C2: the reducer always ends by returning a reduction, never by letting
\* an exception out.
C2_ReducerAlwaysReduces == pc = "done" => outcome = "returned"

(* --------------------------------- C3 ---------------------------------- *)
\* C3: with depth 0 the chain is still flattened: the root and every link up
\* to the limit is a chain node whose next reference is the node of the next
\* link (None at the end), and every other value cleaned is a text.
C3_DepthZeroFlattensChain ==
    (cfg.depth = 0 /\ Cleaned) =>
        LET n == Min(g.nlinks, SelfLimit(cfg.limit))
        IN /\ clean_trace = seen[RootTrace]
           /\ \A t \in 1..n :
                /\ IsKind(seen[t], "Mock")
                /\ CellOf(seen[t]).attrs.tb_next = IF t < n THEN seen[t + 1] ELSE NoneObj
           /\ \A o \in Objs :
                (seen[o] # Unset /\ Kind(o) \notin TRACEBACK_TYPES) => IsKind(seen[o], "Text")

(* --------------------------------- C4 ---------------------------------- *)
\* C4: in a pass started with depth -1 no call of clean takes the
\* exhausted-depth branch (line 168).
C4_UnlimitedNeverExhausts == cfg.depth = -1 => exhausted = {}

(* --------------------------------- C5 ---------------------------------- *)
\* the chain nodes reached from r through tb_next, at most n of them
RECURSIVE ChainNodes(_, _)
ChainNodes(r, n) ==
    IF n = 0 \/ ~IsKind(r, "Mock") THEN <<>>
    ELSE <<r>> \o ChainNodes(CellOf(r).attrs.tb_next, n - 1)

\* C5: a chain of L links cleaned with a configured limit k < L comes out as
\* exactly k chain nodes, the k-th with None as its next reference.
C5_LimitCutsChain ==
    (Cleaned /\ cfg.limit # NoLimit /\ cfg.limit < g.nlinks) =>
        LET nodes == ChainNodes(clean_trace, MaxLinks + 1)
        IN /\ Len(nodes) = cfg.limit
           /\ cfg.limit > 0 => CellOf(nodes[cfg.limit]).attrs.tb_next = NoneObj

C7_SafeValueUnchanged ==
    \A o \in Objs : (Kind(o) = "std" /\ seen[o] # Unset) => seen[o] = o

\* C7, amended: a value of a known-safe type that clean first meets with
\* depth left is returned unchanged when no pickler is configured or the
\* pickler fails on it, and wrapped for _safe_restore when the pickler
\* succeeds; first met with the depth used up it becomes its repr text.
\* Later calls return that memo entry.
C7_SafeValueByDepthAndPickler ==
    \A o \in Objs :
        (Kind(o) = "std" /\ seen[o] # Unset) =>
            CASE o \in exhausted -> IsKind(seen[o], "Text")
              [] cfg.pickler = "ok" -> IsKind(seen[o], "Restored")
              [] OTHER -> seen[o] = o

\* a known-safe value came back unchanged although the pickler failed on it
C7_Witness ==
    /\ cfg.pickler = "fail"
    /\ seen[StdObj] = StdObj
    /\ \E e \in caught : e.obj = StdObj /\ e.site = "pickler" /\ e.ref = StdObj

(* --------------------------------- C8 ---------------------------------- *)
\* the entry e of the output, made for a reference to the input object o, is
\* the one representation of o (its memo entry), or a text (the reference
\* was met with the depth used up, or failed)
Resolves(e, o) == IsKind(e, "Text") \/ e = seen[id(o)]

\* every walk of the chain may reach its end
LimitCoversChain == SelfLimit(cfg.limit) >= g.nlinks

\* every reference held by the representation c of the input object o
\* resolves to the one representation of its target
SharesTargets(o, c) ==
    CASE c.kind = "Container" /\ Kind(o) = "seq" ->
           \A i \in 1..Len(c.items) : Resolves(c.items[i], Elems(o)[i])
      [] c.kind = "Container" /\ Kind(o) = "dict" ->
           \A i \in 1..Len(Items(o)) :
               /\ Resolves(c.items[2 * i - 1], Items(o)[i].k)
               /\ Resolves(c.items[2 * i], Items(o)[i].v)
      [] c.kind = "Mock" /\ Kind(o) = "tb" ->
           /\ Resolves(c.attrs.tb_frame, tb_frame(o))
           /\ (LimitCoversChain /\ tb_next(o) # NoneObj /\ seen[tb_next(o)] # Unset)
                 => Resolves(c.attrs.tb_next, tb_next(o))
      [] c.kind = "Mock" /\ Kind(o) = "frame" ->
           /\ Resolves(c.attrs.f_code, f_code(o))
           /\ f_back(o) # NoneObj => Resolves(c.attrs.f_back, f_back(o))
           /\ LET lo == CellOf(c.attrs.f_locals).items
              IN \A i \in 1..Len(lo) : Resolves(lo[i], f_locals(o)[i])
      [] c.kind = "Mock" /\ Kind(o) = "code" ->
           Resolves(c.attrs.co_consts, co_consts(o))
      [] c.kind = "Mock" /\ Kind(o) = "object" ->
           \A i \in 1..Len(Attrs(o)) : Resolves(c.attrs[AttrName(i)], Attrs(o)[i])
      [] OTHER -> TRUE

\* C8: in the finished output every reference to an input object that was
\* reached within depth is the one representation of that object, a
\* reference from inside the object to itself and a trace link referenced as
\* a next link and from a frame's variables included.
C8_SharingPreserved ==
    Cleaned =>
        \A o \in Objs : IsBuilt(seen[o]) => SharesTargets(o, CellOf(seen[o]))

(* --------------------------------- C9 ---------------------------------- *)
\* C9: when two links of the chain have the same frame, their tb_frame
\* entries in the output are one representation, the memo entry of the
\* frame: clean went past its memo test for that frame at most once, every
\* other reference was served from the memo.
C9_SharedFrameSharedEntry ==
    Cleaned =>
        \A t, u \in 1..g.nlinks :
            (IsKind(seen[t], "Mock") /\ IsKind(seen[u], "Mock")
                /\ tb_frame(t) = tb_frame(u)) =>
                /\ CellOf(seen[t]).attrs.tb_frame = CellOf(seen[u]).attrs.tb_frame
                /\ CellOf(seen[t]).attrs.tb_frame = seen[tb_frame(t)]
                /\ IsBuilt(seen[tb_frame(t)])
                /\ dispatched[tb_frame(t)] <= 1

\* links 1 and 3 of a flattened 3-link chain have the same frame, link 2
\* another, and the tb_frame entries of links 1 and 3 are one mock
C9_Witness ==
    /\ Cleaned
    /\ g.nlinks = 3
    /\ tb_frame(1) = tb_frame(3) /\ tb_frame(2) # tb_frame(1)
    /\ \A t \in 1..3 : IsKind(seen[t], "Mock")
    /\ IsKind(CellOf(seen[1]).attrs.tb_frame, "Mock")
    /\ CellOf(seen[1]).attrs.tb_frame = CellOf(seen[3]).attrs.tb_frame

(* --------------------------------- C10 --------------------------------- *)
\* the files of the frames that _snapshot_source_files walks
RECURSIVE FrameFiles(_, _)
FrameFiles(f, n) ==
    IF f = NoneObj \/ n = 0 THEN {}
    ELSE {co_filename(f_code(f))} \cup FrameFiles(f_back(f), n - 1)
ChainFiles == UNION {FrameFiles(tb_frame(t), Cardinality(Frames)) : t \in 1..g.nlinks}

\* C10: the snapshot never lets an exception out, whatever the failure of
\* a read, and returns an entry (the text or the placeholder) for every file
\* of every frame of the chain.
C10_SnapshotNeverFatal ==
    /\ outcome # "snapshot_raised"
    /\ (pc = "done" /\ include_source = "yes") => \A n \in ChainFiles : files[n] # "absent"

(* --------------------------------- C11 --------------------------------- *)
\* C11: in one pass the dispatch body of clean (past the memo test) runs at
\* most once for each object identity, a list or dict that contains itself
\* included.
C11_DispatchedAtMostOnce == \A o \in Objs : dispatched[o] <= 1

(* --------------------------------- C12 --------------------------------- *)
\* the activations that are cleaning the attributes of a node, and the node
Populating(a) ==
    \/ a.fn = "tb" /\ a.pc = "tb_frame"
    \/ a.fn = "frame" /\ a.pc \in {"f_globals", "f_locals", "f_trace", "f_code"}
    \/ a.fn = "code" /\ a.pc = "co_consts"
    \/ a.fn = "mock" /\ a.pc = "attr"
NodeOf(a) == IF a.fn \in {"tb", "frame"} THEN a.cur ELSE a.obj
Mocked == {o \in Objs : Kind(o) \in TRACEBACK_TYPES \cup {"object"}}

\* C12: while the attributes of a trace link, frame, code descriptor or
\* mocked object are being cleaned, the memo holds the node's placeholder,
\* which is the mock being filled; no node is under population twice, no
\* node gets a second mock and none is dispatched a second time.
C12_PlaceholderBeforePopulation ==
    /\ \A i \in 1..Len(stack) :
          Populating(stack[i]) =>
             /\ seen[id(NodeOf(stack[i]))] = stack[i].dct
             /\ IsKind(stack[i].dct, "Mock")
             /\ CellOf(stack[i].dct).of = NodeOf(stack[i])
             /\ \A j \in 1..Len(stack) :
                   Populating(stack[j]) /\ NodeOf(stack[j]) = NodeOf(stack[i]) => j = i
    /\ \A o \in Mocked :
          /\ dispatched[o] <= 1
          /\ Cardinality({k \in 1..Len(heap) : heap[k].kind = "Mock" /\ heap[k].of = o}) <= 1

\* a frame whose local variable is the frame itself: its f_locals were
\* cleaned while the frame was being populated and hold its placeholder
C12_Witness ==
    \E i \in 1..Len(stack) :
       /\ stack[i].fn = "frame" /\ stack[i].pc = "f_trace"
       /\ f_locals(stack[i].cur) = <<stack[i].cur>>
       /\ stack[i].acc = <<stack[i].dct>>
       /\ seen[stack[i].cur] = stack[i].dct

(* --------------------------------- C13 --------------------------------- *)
\* what the memo has held for chain node n: its mocks and its texts
EntriesOf(n) ==
    {k \in 1..Len(heap) : heap[k].of = n /\ heap[k].kind \in {"Mock", "Text"}}

\* C13: cleaning a self-referential chain terminates (the clean() of line 70
\* comes back), and at every moment, the end included, each link and frame
\* that the pass has visited has exactly one memo entry, made once; a node
\* not visited has none.
C13_LoopedChainTerminates ==
    /\ <>(pc \notin {"init", "clean"})
    /\ [](\A n \in Links \cup Frames :
            /\ Cardinality(EntriesOf(n)) = IF seen[n] = Unset THEN 0 ELSE 1
            /\ dispatched[n] <= 1)

\* a two-link chain whose second link points back to the first, and whose
\* frames call each other, cleaned to the end: both links and both frames
\* are mocks
C13_Witness ==
    /\ g.nlinks = 2 /\ g.tbLoop = 1
    /\ g.fBack = [f \in Frames |-> IF f = Frame1 THEN Frame2 ELSE Frame1]
    /\ cfg.limit = NoLimit
    /\ Cleaned
    /\ \A n \in {1, 2} \cup Frames : IsKind(seen[n], "Mock")

(* --------------------------------- C14 --------------------------------- *)
\* the trace walk is at a link, within the limit, that the memo already holds
TraceWalkMeetsMemo ==
    /\ Running("tb", "loop")
    /\ top.idx < SelfLimit(cfg.limit) /\ top.cur # NoneObj
    /\ top.last # Dummy
    /\ TraceMemoHit(Mem, top.cur)
\* the frame walk is at a frame that the memo already holds
FrameWalkMeetsMemo ==
    /\ Running("frame", "loop")
    /\ top.cur # NoneObj /\ top.last # Dummy
    /\ FrameMemoHit(Mem, top.cur)

\* C14, the frame walk alone: the step that meets a memoized frame leaves
\* it as the previous frame's f_back and ends the walk.
FrameWalkLinksMemo ==
    [][FrameWalkMeetsMemo =>
          /\ heap'[top.last - HeapBase].attrs.f_back = seen[top.cur]
          /\ stack'[Len(stack)].pc = "ret"]_vars

\* C14: when a walk reaches a node that is already memoized, the step that
\* ends the walk leaves the memoized representation as the previous node's
\* tb_next (trace walk) or f_back (frame walk); nothing writes to that node
\* afterwards, so this is its entry in the output.
C14_MemoizedNodeIsLinked ==
    [][/\ TraceWalkMeetsMemo =>
            /\ heap'[top.last - HeapBase].attrs.tb_next = seen[top.cur]
            /\ stack'[Len(stack)].pc = "ret"
       /\ FrameWalkMeetsMemo =>
            /\ heap'[top.last - HeapBase].attrs.f_back = seen[top.cur]
            /\ stack'[Len(stack)].pc = "ret"]_vars

(* --------------------------------- C15 --------------------------------- *)
\* the frames from f up to, not including, frame `to` along f_back (at most n)
RECURSIVE FramesWalked(_, _, _)
FramesWalked(f, to, n) ==
    IF f = to \/ f = NoneObj \/ n = 0 THEN 0
    ELSE 1 + FramesWalked(f_back(f), to, n - 1)

\* the limit the caller configured: the argument, or the default when omitted
ConfiguredLimit == IF cfg.limit = NoLimit THEN ISqrt(RecursionLimit) ELSE cfg.limit

\* C15: in one walk neither the trace links flattened (the turns of the for
\* loop taken) nor the frames flattened along f_back (the frames the while
\* loop has gone past) are more than the configured limit.
C15_WalksBoundedByLimit ==
    \A i \in 1..Len(stack) :
       /\ stack[i].fn = "tb" => stack[i].idx <= ConfiguredLimit
       /\ (stack[i].fn = "frame" /\ stack[i].pc = "loop") =>
             FramesWalked(stack[i].obj, stack[i].cur, Cardinality(Frames)) <= ConfiguredLimit

\* the frame walk alone goes past the limit: two frames with limit 1
FrameWalkOverLimit ==
    \E i \in 1..Len(stack) :
       /\ stack[i].fn = "frame" /\ stack[i].pc = "loop"
       /\ cfg.limit >= 1
       /\ FramesWalked(stack[i].obj, stack[i].cur, Cardinality(Frames)) > cfg.limit

(* --------------------------------- C16 --------------------------------- *)
\* C16: clean_fallback never raises (no handler of clean ever catches an
\* exception that came out of clean_fallback), and an opaque object whose
\* attribute introspection fails is represented by its plain repr text.
C16_FallbackNeverRaises ==
    /\ \A e \in caught :
          ~(e.site = "delegate" /\ Kind(e.obj) \notin TRACEBACK_TYPES)
    /\ \A o \in Objs :
          (IntrospectionFails(o) /\ seen[o] # Unset /\ cfg.pickler # "ok") =>
              IsKind(seen[o], "Text") /\ CellOf(seen[o]).how = "repr"

\* C16, the second half alone
IntrospectionFailureIsRepr ==
    \A o \in Objs :
       (IntrospectionFails(o) /\ seen[o] # Unset /\ cfg.pickler # "ok") =>
           IsKind(seen[o], "Text") /\ CellOf(seen[o]).how = "repr"

(* --------------------------------- C17 --------------------------------- *)
\* C17: once the cleaner is constructed its limit is the supplied limit for
\* every integer supplied, 0 included, and int(sqrt(recursion limit)) only
\* when none was supplied; no trace walk takes more turns than that.
C17_EffectiveLimitIsSupplied ==
    pc # "init" =>
        /\ SelfLimit(cfg.limit) = ConfiguredLimit
        /\ \A i \in 1..Len(stack) : stack[i].fn = "tb" => stack[i].idx <= ConfiguredLimit

(* --------------------------------- C18 --------------------------------- *)
\* the entries of a chain node's dict that the raw capture (lines 199, 216)
\* fills with live chain nodes
LinkAttrs == {"tb_next", "tb_frame", "f_back", "f_code"}
\* v is a live trace link, frame or code object
LiveChainNode(v) == v \in Links \cup Frames \cup Codes

\* C18: once the clean() of line 70 has returned, no tb_next, tb_frame,
\* f_back or f_code entry of a mock that the memo holds for a link, frame or
\* code object is a live link, frame or code object.
C18_NoLiveChainNodeInMemo ==
    Cleaned =>
        \A o \in Links \cup Frames \cup Codes :
            IsKind(seen[o], "Mock") =>
                \A at \in LinkAttrs : ~LiveChainNode(CellOf(seen[o]).attrs[at])

(* --------------------------------- C19 --------------------------------- *)
\* value r was computed from object o: the cell built for o, the shared stub
\* for a function, or o itself
ComputedFrom(r, o) ==
    IF IsBuilt(r) THEN (r = StubRef /\ Kind(o) = "func") \/ (r # StubRef /\ CellOf(r).of = o)
    ELSE r = o

\* C19: whenever clean answers from the memo for a value, what it returns
\* was computed from that value, also when the value is a temporary built
\* at the address of one that was cleaned and released earlier in the pass.
C19_MemoHitIsSameObject == \A h \in hits : ComputedFrom(h.ref, h.obj)

====
